---- MODULE Spec2Model ----
(***************************************************************************)
(* Model of srp_tasks.py: the Priority enum, the CSV-like FileTaskStorage  *)
(* (save_tasks / load_tasks) and the TaskManager that coordinates the      *)
(* in-memory task list with the storage.                                   *)
(*                                                                         *)
(* A Python str is a sequence of one-character strings.  An Optional[str]  *)
(* is a sequence of length 0 (None) or 1 (<<s>>), so that the empty string *)
(* and None stay distinct, as they are in Python.                          *)
(***************************************************************************)
EXTENDS Integers, Sequences, FiniteSets, TLC

VARIABLES
    phase,      \* "new": FileTaskStorage built, TaskManager not yet; "run": TaskManager built
    file,       \* the backing file: [exists, content]
    tasks,      \* TaskManager.tasks
    next_id,    \* TaskManager.next_id
    oids,       \* identity of the Task object at each position of tasks
    next_oid,   \* identity the next Task object gets
    held,       \* ids held by any task of this session, loaded or added
    assigned,   \* ids handed out by add_task, in call order
    last,       \* the caller's last step: operation, arguments, result, number of saves
    snapshot,   \* the list a caller got from list_tasks: the task objects in it
    useLock,    \* concurrent callers only: whether operations run under one lock
    lock,       \* concurrent callers only: the caller holding the lock, 0 if none
    thr         \* concurrent callers only: each caller's position and local values

\* The variables of a single-caller session.
session == <<phase, file, tasks, next_id, oids, next_oid, held, assigned, last>>
\* A caller's copy of the list, concurrent callers.
aux == <<snapshot, useLock, lock, thr>>
vars == <<session, aux>>

\* ------------------------------------------------------------------ bounds
\* add_task calls per session (next_id is unbounded in Python).
MaxAdds == 2

\* ------------------------------------------------------------- characters
NL == "\n"
CR == "\r"
COMMA == ","
Whitespace == {" ", "\t", NL, CR}
Digits == <<"0", "1", "2", "3", "4", "5", "6", "7", "8", "9">>
UpperCase == <<"A", "B", "C", "D", "E", "F", "G", "H", "I", "J", "K", "L", "M",
               "N", "O", "P", "Q", "R", "S", "T", "U", "V", "W", "X", "Y", "Z">>
LowerCase == <<"a", "b", "c", "d", "e", "f", "g", "h", "i", "j", "k", "l", "m",
               "n", "o", "p", "q", "r", "s", "t", "u", "v", "w", "x", "y", "z">>

\* The escape token save_tasks writes for a comma: backslash u 0 0 2 C.
ESCAPED_COMMA == <<"\\", "u", "0", "0", "2", "C">>

\* Optional values.
None == <<>>
Some(s) == <<s>>

\* ---------------------------------------------------------------- str ops
IsPrefixAt(s, pat, i) ==
    /\ i + Len(pat) - 1 <= Len(s)
    /\ \A k \in 1..Len(pat) : s[i + k - 1] = pat[k]

\* str.replace(pat, rep): leftmost, non-overlapping occurrences.
RECURSIVE ReplaceFrom(_, _, _, _)
ReplaceFrom(s, pat, rep, i) ==
    IF i > Len(s) THEN <<>>
    ELSE IF IsPrefixAt(s, pat, i)
         THEN rep \o ReplaceFrom(s, pat, rep, i + Len(pat))
         ELSE <<s[i]>> \o ReplaceFrom(s, pat, rep, i + 1)

Replace(s, pat, rep) == ReplaceFrom(s, pat, rep, 1)

\* str.split(sep) for a one-character sep: always at least one field.
RECURSIVE SplitFrom(_, _, _, _)
SplitFrom(s, sep, i, cur) ==
    IF i > Len(s) THEN <<cur>>
    ELSE IF s[i] = sep
         THEN <<cur>> \o SplitFrom(s, sep, i + 1, <<>>)
         ELSE SplitFrom(s, sep, i + 1, Append(cur, s[i]))

Split(s, sep) == SplitFrom(s, sep, 1, <<>>)

\* str.strip(): whitespace removed at both ends.
RECURSIVE LStrip(_)
LStrip(s) ==
    IF s # <<>> /\ Head(s) \in Whitespace THEN LStrip(Tail(s)) ELSE s

RECURSIVE RStrip(_)
RStrip(s) ==
    IF s # <<>> /\ s[Len(s)] \in Whitespace
    THEN RStrip(SubSeq(s, 1, Len(s) - 1)) ELSE s

Strip(s) == RStrip(LStrip(s))

\* str.lower() on ASCII letters.
LowerChar(c) ==
    IF \E k \in 1..26 : UpperCase[k] = c
    THEN LowerCase[CHOOSE k \in 1..26 : UpperCase[k] = c]
    ELSE c

Lower(s) == [k \in 1..Len(s) |-> LowerChar(s[k])]

\* str(int): decimal digits, a leading minus sign for negatives.
RECURSIVE NatToStr(_)
NatToStr(n) ==
    IF n < 10 THEN <<Digits[n + 1]>>
    ELSE NatToStr(n \div 10) \o <<Digits[(n % 10) + 1]>>

IntToStr(n) == IF n < 0 THEN <<"-">> \o NatToStr(0 - n) ELSE NatToStr(n)

\* str(bool)
BoolToStr(b) == IF b THEN <<"T", "r", "u", "e">> ELSE <<"F", "a", "l", "s", "e">>

\* str(Optional[str]): None prints as the four letters None.
OptToStr(o) == IF o = None THEN <<"N", "o", "n", "e">> ELSE o[1]

IsDigit(c) == \E k \in 1..10 : Digits[k] = c
DigitVal(c) == (CHOOSE k \in 1..10 : Digits[k] = c) - 1

\* The digits of an int() literal: digits with single underscores between them.
IsIntBody(s) ==
    /\ s # <<>>
    /\ IsDigit(s[1])
    /\ IsDigit(s[Len(s)])
    /\ \A k \in 1..Len(s) : IsDigit(s[k]) \/ s[k] = "_"
    /\ \A k \in 1..(Len(s) - 1) : ~(s[k] = "_" /\ s[k + 1] = "_")

RECURSIVE BodyVal(_, _)
BodyVal(s, acc) ==
    IF s = <<>> THEN acc
    ELSE IF Head(s) = "_" THEN BodyVal(Tail(s), acc)
         ELSE BodyVal(Tail(s), 10 * acc + DigitVal(Head(s)))

\* int(str): surrounding whitespace, an optional sign, then the digits;
\* anything else raises ValueError (ok = FALSE).
ParseInt(s) ==
    LET t == Strip(s)
        signed == t # <<>> /\ t[1] \in {"+", "-"}
        body == IF signed THEN Tail(t) ELSE t
    IN IF IsIntBody(body)
       THEN [ok |-> TRUE,
             val |-> IF signed /\ t[1] = "-" THEN 0 - BodyVal(body, 0)
                     ELSE BodyVal(body, 0)]
       ELSE [ok |-> FALSE, val |-> 0]

\* --------------------------------------------------------------- Priority
Priority == {"LOW", "MEDIUM", "HIGH"}

\* Priority.value
PriorityValue(p) ==
    CASE p = "LOW" -> <<"l", "o", "w">>
      [] p = "MEDIUM" -> <<"m", "e", "d", "i", "u", "m">>
      [] p = "HIGH" -> <<"h", "i", "g", "h">>

\* Mutant: the value is trimmed but not lower-cased.
from_str_no_lower(value) ==
    IF value = None \/ value[1] = <<>> THEN "MEDIUM"
    ELSE LET v == Strip(value[1]) IN
         IF v \in {<<"l">>, <<"l", "o", "w">>} THEN "LOW"
         ELSE IF v \in {<<"m">>, <<"m", "e", "d">>, <<"m", "e", "d", "i", "u", "m">>}
              THEN "MEDIUM"
         ELSE IF v \in {<<"h">>, <<"h", "i">>, <<"h", "i", "g", "h">>} THEN "HIGH"
         ELSE "MEDIUM"

\* Priority.from_str(value), value an Optional[str].
from_str(value) ==
    IF value = None \/ value[1] = <<>> THEN "MEDIUM"
    ELSE LET v == Lower(Strip(value[1])) IN
         IF v \in {<<"l">>, <<"l", "o", "w">>} THEN "LOW"
         ELSE IF v \in {<<"m">>, <<"m", "e", "d">>, <<"m", "e", "d", "i", "u", "m">>}
              THEN "MEDIUM"
         ELSE IF v \in {<<"h">>, <<"h", "i">>, <<"h", "i", "g", "h">>} THEN "HIGH"
         ELSE "MEDIUM"

\* ------------------------------------------------------------------- Task
Task(id, description, due_date, completed, priority) ==
    [id |-> id, description |-> description, due_date |-> due_date,
     completed |-> completed, priority |-> priority]

\* Mutant: the flag is flipped instead of set.
mark_completed_toggle(t) == [t EXCEPT !.completed = ~t.completed]

\* Task.mark_completed
mark_completed(t) == [t EXCEPT !.completed = TRUE]

\* -------------------------------------------------------- FileTaskStorage
\* One record of save_tasks: the f-string written for task t.
EncodeTask(t) ==
    LET desc == Replace(t.description, <<COMMA>>, ESCAPED_COMMA)
    IN IntToStr(t.id) \o <<COMMA>> \o desc \o <<COMMA>> \o OptToStr(t.due_date)
       \o <<COMMA>> \o BoolToStr(t.completed) \o <<COMMA>> \o PriorityValue(t.priority)
       \o <<NL>>

RECURSIVE EncodeAll(_)
EncodeAll(ts) ==
    IF ts = <<>> THEN <<>> ELSE EncodeTask(Head(ts)) \o EncodeAll(Tail(ts))

\* save_tasks(tasks): the file is opened with "w" and rewritten whole.
save_tasks(ts) == [exists |-> TRUE, content |-> EncodeAll(ts)]

\* Text-mode reading translates "\r\n" and "\r" to "\n": a "\n" that
\* follows a "\r" is dropped, and every "\r" becomes "\n".
UniversalNewlines(s) ==
    LET kept == {i \in 1..Len(s) : ~(s[i] = NL /\ i > 1 /\ s[i - 1] = CR)}
        nth(j) == CHOOSE i \in kept : Cardinality({h \in kept : h < i}) = j - 1
    IN IF \A i \in 1..Len(s) : s[i] # CR THEN s
       ELSE [j \in 1..Cardinality(kept) |-> IF s[nth(j)] = CR THEN NL ELSE s[nth(j)]]

\* "for line in f": the lines of the text from position i on, each with its
\* terminator; a last line without terminator is a line too.
RECURSIVE LinesFrom(_, _)
LinesFrom(s, i) ==
    IF i > Len(s) THEN <<>>
    ELSE IF \A k \in i..Len(s) : s[k] # NL THEN <<SubSeq(s, i, Len(s))>>
    ELSE LET n == CHOOSE k \in i..Len(s) :
                     s[k] = NL /\ \A j \in i..(k - 1) : s[j] # NL
         IN <<SubSeq(s, i, n)>> \o LinesFrom(s, n + 1)

FileLines(content) == LinesFrom(UniversalNewlines(content), 1)

\* line.rstrip("\n")
RECURSIVE RStripNL(_)
RStripNL(s) ==
    IF s # <<>> /\ s[Len(s)] = NL THEN RStripNL(SubSeq(s, 1, Len(s) - 1)) ELSE s

\* The body of the loop of load_tasks for one line: the tasks it appends
\* (none for a line that is skipped).
DecodeLine(line) ==
    LET parts == Split(RStripNL(line), COMMA) IN
    IF Len(parts) \notin {4, 5} THEN <<>>
    ELSE LET task_id == ParseInt(parts[1]) IN
         IF ~task_id.ok THEN <<>>
         ELSE LET description == Replace(parts[2], ESCAPED_COMMA, <<COMMA>>)
                  due_date == IF parts[3] = <<>> \/ parts[3] = <<"N", "o", "n", "e">>
                              THEN None ELSE Some(parts[3])
                  completed == Lower(Strip(parts[4])) = <<"t", "r", "u", "e">>
                  priority == IF Len(parts) = 5 THEN from_str(Some(parts[5]))
                              ELSE "MEDIUM"
              IN <<Task(task_id.val, description, due_date, completed, priority)>>

\* Mutant: the loop stops at the first line it cannot use (break for continue).
RECURSIVE DecodeLines_break(_)
DecodeLines_break(ls) ==
    IF ls = <<>> \/ DecodeLine(Head(ls)) = <<>> THEN <<>>
    ELSE DecodeLine(Head(ls)) \o DecodeLines_break(Tail(ls))

RECURSIVE DecodeLines(_)
DecodeLines(ls) ==
    IF ls = <<>> THEN <<>> ELSE DecodeLine(Head(ls)) \o DecodeLines(Tail(ls))

\* load_tasks(): no file, no tasks.
load_tasks(f) == IF ~f.exists THEN <<>> ELSE DecodeLines(FileLines(f.content))

\* ----------------------------------------------------------------- inputs
\* The priority argument of add_task: a Priority, or an Optional[str].
PriorityArg(p) == [isPriority |-> TRUE, prio |-> p, str |-> None]
StrArg(o) == [isPriority |-> FALSE, prio |-> "MEDIUM", str |-> o]

\* The calls of add_task a session makes: description, due_date, priority.
AddArgs ==
    { \* plain text, no due date, a typed Priority
      <<<<"a">>, None, PriorityArg("LOW")>>,
      \* a description containing the delimiter, a priority string
      <<<<"a", COMMA, "b">>, Some(<<"d">>), StrArg(Some(<<"H", "I">>))>>,
      \* a description that is the text of the escape token, priority absent
      <<ESCAPED_COMMA, None, StrArg(None)>>,
      \* a due_date string containing the delimiter
      <<<<"b">>, Some(<<"d", COMMA, "e">>), StrArg(Some(<<"b", "o", "g", "u", "s">>))>> }

\* Backing files a session can start from.
MissingFile == [exists |-> FALSE, content |-> <<>>]

\* Written by save_tasks in an earlier session; ids neither sorted nor dense.
SavedFile ==
    save_tasks(<<Task(7, <<"a", COMMA, "b">>, Some(<<"d">>), TRUE, "HIGH"),
                 Task(2, <<"c">>, None, FALSE, "LOW")>>)

\* Written by save_tasks in an earlier session for the one task of
\* add_task("x", due_date="d,False\n1,evil"): the due_date carries a line
\* break, so the file holds two four-field records, both with id 1.
DuplicateIdFile ==
    save_tasks(<<Task(1, <<"x">>,
                      Some(<<"d", COMMA, "F", "a", "l", "s", "e", NL,
                             "1", COMMA, "e", "v", "i", "l">>),
                      FALSE, "MEDIUM")>>)

\* A well-formed record, a two-field line and a record whose id is no integer.
MalformedFile ==
    [exists |-> TRUE,
     content |-> <<"5", COMMA, "a", COMMA, COMMA, " ", "T", "R", "U", "E",
                   COMMA, "b", "o", "g", "u", "s", NL,
                   "x", COMMA, "y", NL,
                   "x", COMMA, "a", COMMA, "d", COMMA, "T", "r", "u", "e", NL>>]

\* A record whose id is a negative integer; no final newline.
NegativeIdFile ==
    [exists |-> TRUE,
     content |-> <<"-", "2", COMMA, "a", COMMA, "d", COMMA, "t", "r", "u", "e",
                   COMMA, "m", "e", "d">>]

\* Written by save_tasks in an earlier session: stored ids 3, 7, 2.
UnorderedIdsFile ==
    save_tasks(<<Task(3, <<"a">>, None, FALSE, "LOW"),
                 Task(7, <<"b">>, Some(<<"d">>), TRUE, "MEDIUM"),
                 Task(2, <<"c">>, None, FALSE, "HIGH")>>)

\* Written by save_tasks in an earlier session after add_task("b", "d,e")
\* and add_task("a"): the first record has six fields.
SkippedFirstFile ==
    save_tasks(<<Task(1, <<"b">>, Some(<<"d", COMMA, "e">>), FALSE, "MEDIUM"),
                 Task(2, <<"a">>, None, FALSE, "LOW")>>)

\* An empty file, and a file of blank and one-field lines only.
EmptyFile == [exists |-> TRUE, content |-> <<>>]
BlankLinesFile == [exists |-> TRUE, content |-> <<NL, "x", NL, NL>>]

InitFiles == {MissingFile, SavedFile, DuplicateIdFile, MalformedFile, NegativeIdFile}

\* ------------------------------------------------------------ TaskManager
Ids(ts) == {ts[k].id : k \in 1..Len(ts)}

\* max(ids, default=0)
MaxOr0(S) == IF S = {} THEN 0 ELSE CHOOSE m \in S : \A x \in S : x <= m

\* Mutant: next_id counted from the number of loaded tasks.
InitialNextId_count(ts) == Len(ts) + 1

\* Mutant: next_id taken from the last loaded task, as if the file were sorted.
InitialNextId_last(ts) == IF ts = <<>> THEN 1 ELSE ts[Len(ts)].id + 1

\* The next_id computed by __init__ from the loaded tasks.
InitialNextId(ts) == MaxOr0(Ids(ts)) + 1

\* Mutant: the last task with that id instead of the first.
get_task_by_id_last(ts, task_id) ==
    IF \E k \in 1..Len(ts) : ts[k].id = task_id
    THEN CHOOSE k \in 1..Len(ts) :
            /\ ts[k].id = task_id
            /\ \A j \in (k + 1)..Len(ts) : ts[j].id # task_id
    ELSE 0

\* get_task_by_id: position of the first task with that id, 0 for None.
get_task_by_id(ts, task_id) ==
    IF \E k \in 1..Len(ts) : ts[k].id = task_id
    THEN CHOOSE k \in 1..Len(ts) :
            /\ ts[k].id = task_id
            /\ \A j \in 1..(k - 1) : ts[j].id # task_id
    ELSE 0

\* Positions kept by the list comprehension of remove_task.
RECURSIVE KeptFrom(_, _, _)
KeptFrom(ts, task_id, k) ==
    IF k > Len(ts) THEN <<>>
    ELSE IF ts[k].id # task_id
         THEN <<k>> \o KeptFrom(ts, task_id, k + 1)
         ELSE KeptFrom(ts, task_id, k + 1)

Kept(ts, task_id) == KeptFrom(ts, task_id, 1)

NoTask == <<>>
NoArg == StrArg(None)

Call(op, task_id, description, due_date, priority, retBool, retTask, saves) ==
    [op |-> op, task_id |-> task_id, description |-> description,
     due_date |-> due_date, priority |-> priority,
     retBool |-> retBool, retTask |-> retTask, saves |-> saves,
     io |-> "ok", raised |-> FALSE]

\* The record of a call in which the storage failed with outcome io and the
\* error left the call: nothing is returned.
Raises(call, io) ==
    [call EXCEPT !.io = io, !.raised = TRUE, !.retBool = FALSE, !.retTask = NoTask]

\* What a failed save_tasks leaves: open() raised and the file is untouched,
\* or the file was opened (created, truncated) and writing it raised.
SaveFailures == {"open", "write"}
FailedSave(f, io) == IF io = "open" THEN f ELSE [exists |-> TRUE, content |-> <<>>]

\* One caller, no I/O error so far, no list handed out.
Callers == {1, 2}
\* The list object a running save_tasks was given: the registry's current
\* list, or a list remove_task has replaced since (its items).
Attached == [attached |-> TRUE, items |-> <<>>]
Detached(ts) == [attached |-> FALSE, items |-> ts]
\* A caller outside any operation: position, operation, argument, the Task
\* built and its identity, the next_id read, before, the filtered list, the
\* list being saved and the text written to the open file so far.
Idle == [pc |-> "idle", op |-> "none", task_id |-> 0, task |-> NoTask, oid |-> 0,
         read |-> 0, before |-> 0, kept |-> <<>>, koids |-> <<>>,
         arg |-> Attached, buffer |-> <<>>]

\* The list object list_tasks returned: its items (task objects, by
\* identity) and whether it is the registry's own list object.
ListObject(alias, items) == [given |-> TRUE, alias |-> alias, items |-> items]
NoList == [given |-> FALSE, alias |-> FALSE, items |-> <<>>]

AuxInit ==
    /\ snapshot = NoList
    /\ useLock = FALSE
    /\ lock = 0
    /\ thr = [c \in Callers |-> Idle]

Init ==
    /\ phase = "new"
    /\ file \in InitFiles
    /\ tasks = <<>>
    /\ next_id = 0
    /\ oids = <<>>
    /\ next_oid = 1
    /\ held = {}
    /\ assigned = <<>>
    /\ last = Call("none", 0, <<>>, None, NoArg, FALSE, NoTask, 0)
    /\ AuxInit

\* Mutant: next_id starts from the number of loaded tasks.
TaskManager__init___count ==
    /\ phase = "new"
    /\ LET loaded == load_tasks(file) IN
       /\ tasks' = loaded
       /\ next_id' = Len(loaded) + 1
       /\ oids' = [k \in 1..Len(loaded) |-> k]
       /\ next_oid' = Len(loaded) + 1
       /\ held' = Ids(loaded)
    /\ phase' = "run"
    /\ assigned' = <<>>
    /\ last' = Call("init", 0, <<>>, None, NoArg, FALSE, NoTask, 0)
    /\ UNCHANGED file
    /\ UNCHANGED aux

\* TaskManager.__init__
TaskManager__init__ ==
    /\ phase = "new"
    /\ LET loaded == load_tasks(file) IN
       /\ tasks' = loaded
       /\ next_id' = InitialNextId(loaded)
       /\ oids' = [k \in 1..Len(loaded) |-> k]
       /\ next_oid' = Len(loaded) + 1
       /\ held' = Ids(loaded)
    /\ phase' = "run"
    /\ assigned' = <<>>
    /\ last' = Call("init", 0, <<>>, None, NoArg, FALSE, NoTask, 0)
    /\ UNCHANGED file
    /\ UNCHANGED aux

\* Mutant: next_id is not advanced.
add_task_no_increment(description, due_date, priority) ==
    /\ phase = "run"
    /\ Len(assigned) < MaxAdds
    /\ LET pr == IF priority.isPriority THEN priority.prio ELSE from_str(priority.str)
           task == Task(next_id, description, due_date, FALSE, pr)
       IN /\ tasks' = Append(tasks, task)
          /\ oids' = Append(oids, next_oid)
          /\ next_oid' = next_oid + 1
          /\ next_id' = next_id
          /\ file' = save_tasks(tasks')
          /\ held' = held \cup {task.id}
          /\ assigned' = Append(assigned, task.id)
          /\ last' = Call("add", 0, description, due_date, priority, FALSE, <<task>>, 1)
    /\ UNCHANGED phase
    /\ UNCHANGED aux

\* TaskManager.add_task
add_task(description, due_date, priority) ==
    /\ phase = "run"
    /\ Len(assigned) < MaxAdds
    /\ LET pr == IF priority.isPriority THEN priority.prio ELSE from_str(priority.str)
           task == Task(next_id, description, due_date, FALSE, pr)
       IN /\ tasks' = Append(tasks, task)
          /\ oids' = Append(oids, next_oid)
          /\ next_oid' = next_oid + 1
          /\ next_id' = next_id + 1
          /\ file' = save_tasks(tasks')
          /\ held' = held \cup {task.id}
          /\ assigned' = Append(assigned, task.id)
          /\ last' = Call("add", 0, description, due_date, priority, FALSE, <<task>>, 1)
    /\ UNCHANGED phase
    /\ UNCHANGED aux

\* Mutant: the save is not skipped when the id is not found.
mark_task_completed_always_saves(task_id) ==
    /\ phase = "run"
    /\ LET k == get_task_by_id(tasks, task_id) IN
       /\ tasks' = IF k = 0 THEN tasks
                   ELSE [tasks EXCEPT ![k] = mark_completed(tasks[k])]
       /\ file' = save_tasks(tasks')
       /\ last' = Call("mark", task_id, <<>>, None, NoArg, k # 0, NoTask, 1)
    /\ UNCHANGED <<phase, next_id, oids, next_oid, held, assigned>>
    /\ UNCHANGED aux

\* TaskManager.mark_task_completed
mark_task_completed(task_id) ==
    /\ phase = "run"
    /\ LET k == get_task_by_id(tasks, task_id) IN
       IF k = 0
       THEN /\ last' = Call("mark", task_id, <<>>, None, NoArg, FALSE, NoTask, 0)
            /\ UNCHANGED <<tasks, file>>
       ELSE /\ tasks' = [tasks EXCEPT ![k] = mark_completed(tasks[k])]
            /\ file' = save_tasks(tasks')
            /\ last' = Call("mark", task_id, <<>>, None, NoArg, TRUE, NoTask, 1)
    /\ UNCHANGED <<phase, next_id, oids, next_oid, held, assigned>>
    /\ UNCHANGED aux

\* Mutant: next_id is recomputed from the tasks that remain.
remove_task_recompute_next_id(task_id) ==
    /\ phase = "run"
    /\ LET before == Len(tasks)
           kept == Kept(tasks, task_id)
       IN /\ tasks' = [j \in 1..Len(kept) |-> tasks[kept[j]]]
          /\ oids' = [j \in 1..Len(kept) |-> oids[kept[j]]]
          /\ next_id' = InitialNextId(tasks')
          /\ IF Len(kept) = before
             THEN /\ last' = Call("remove", task_id, <<>>, None, NoArg, FALSE, NoTask, 0)
                  /\ UNCHANGED file
             ELSE /\ file' = save_tasks(tasks')
                  /\ last' = Call("remove", task_id, <<>>, None, NoArg, TRUE, NoTask, 1)
    /\ UNCHANGED <<phase, next_oid, held, assigned>>
    /\ UNCHANGED aux

\* TaskManager.remove_task
remove_task(task_id) ==
    /\ phase = "run"
    /\ LET before == Len(tasks)
           kept == Kept(tasks, task_id)
       IN /\ tasks' = [j \in 1..Len(kept) |-> tasks[kept[j]]]
          /\ oids' = [j \in 1..Len(kept) |-> oids[kept[j]]]
          /\ IF Len(kept) = before
             THEN /\ last' = Call("remove", task_id, <<>>, None, NoArg, FALSE, NoTask, 0)
                  /\ UNCHANGED file
             ELSE /\ file' = save_tasks(tasks')
                  /\ last' = Call("remove", task_id, <<>>, None, NoArg, TRUE, NoTask, 1)
    /\ UNCHANGED <<phase, next_id, next_oid, held, assigned>>
    /\ UNCHANGED aux

\* Sessions that load, complete and remove, from a wider set of files.
LoadFiles ==
    InitFiles \cup {UnorderedIdsFile, SkippedFirstFile, EmptyFile, BlankLinesFile}

InitLoad ==
    /\ phase = "new"
    /\ file \in LoadFiles
    /\ tasks = <<>>
    /\ next_id = 0
    /\ oids = <<>>
    /\ next_oid = 1
    /\ held = {}
    /\ assigned = <<>>
    /\ last = Call("none", 0, <<>>, None, NoArg, FALSE, NoTask, 0)
    /\ AuxInit

\* Mutant: the registry's own list is handed out instead of a copy.
list_tasks_alias ==
    /\ phase = "run"
    /\ snapshot' = ListObject(TRUE, oids)
    /\ last' = Call("list", 0, <<>>, None, NoArg, FALSE, NoTask, 0)
    /\ UNCHANGED <<phase, file, tasks, next_id, oids, next_oid, held, assigned>>
    /\ UNCHANGED <<useLock, lock, thr>>

\* TaskManager.list_tasks
list_tasks ==
    /\ phase = "run"
    /\ snapshot' = ListObject(FALSE, oids)
    /\ last' = Call("list", 0, <<>>, None, NoArg, FALSE, NoTask, 0)
    /\ UNCHANGED <<phase, file, tasks, next_id, oids, next_oid, held, assigned>>
    /\ UNCHANGED <<useLock, lock, thr>>

\* TaskManager.get_task_by_id, called by a caller
get_task(task_id) ==
    /\ phase = "run"
    /\ LET k == get_task_by_id(tasks, task_id) IN
       last' = Call("get", task_id, <<>>, None, NoArg, FALSE,
                    IF k = 0 THEN NoTask ELSE <<tasks[k]>>, 0)
    /\ UNCHANGED <<phase, file, tasks, next_id, oids, next_oid, held, assigned>>
    /\ UNCHANGED aux

\* An object that is no task of the registry, appended by the caller.
Foreign == 0

\* The caller appends to the list it was given, or removes its last element.
\* A list object shared with the registry changes for the registry too.
CallerAppends ==
    /\ snapshot.given
    /\ ~(\E k \in 1..Len(snapshot.items) : snapshot.items[k] = Foreign)
    /\ snapshot' = [snapshot EXCEPT !.items = Append(@, Foreign)]
    /\ IF snapshot.alias
       THEN /\ tasks' = Append(tasks, Task(0, <<>>, None, FALSE, "MEDIUM"))
            /\ oids' = Append(oids, Foreign)
       ELSE UNCHANGED <<tasks, oids>>
    /\ last' = Call("caller-append", 0, <<>>, None, NoArg, FALSE, NoTask, 0)
    /\ UNCHANGED <<phase, file, next_id, next_oid, held, assigned>>
    /\ UNCHANGED <<useLock, lock, thr>>

CallerPops ==
    /\ snapshot.given
    /\ snapshot.items # <<>>
    /\ snapshot' = [snapshot EXCEPT !.items = SubSeq(@, 1, Len(@) - 1)]
    /\ IF snapshot.alias
       THEN /\ tasks' = SubSeq(tasks, 1, Len(tasks) - 1)
            /\ oids' = SubSeq(oids, 1, Len(oids) - 1)
       ELSE UNCHANGED <<tasks, oids>>
    /\ last' = Call("caller-pop", 0, <<>>, None, NoArg, FALSE, NoTask, 0)
    /\ UNCHANGED <<phase, file, next_id, next_oid, held, assigned>>
    /\ UNCHANGED <<useLock, lock, thr>>

\* TaskManager.__init__ when load_tasks cannot open or read the file: the
\* error leaves the constructor, no TaskManager exists.
TaskManager__init__load_fails ==
    /\ phase = "new"
    /\ file.exists
    /\ last' = Raises(Call("init", 0, <<>>, None, NoArg, FALSE, NoTask, 0), "read")
    /\ UNCHANGED <<phase, file, tasks, next_id, oids, next_oid, held, assigned>>
    /\ UNCHANGED aux

\* Mutant: add_task catches the error of save_tasks and returns the task.
add_task_save_fails_swallowed(description, due_date, priority, io) ==
    /\ phase = "run"
    /\ Len(assigned) < MaxAdds
    /\ LET pr == IF priority.isPriority THEN priority.prio ELSE from_str(priority.str)
           task == Task(next_id, description, due_date, FALSE, pr)
       IN /\ tasks' = Append(tasks, task)
          /\ oids' = Append(oids, next_oid)
          /\ next_oid' = next_oid + 1
          /\ next_id' = next_id + 1
          /\ file' = FailedSave(file, io)
          /\ held' = held \cup {task.id}
          /\ assigned' = Append(assigned, task.id)
          /\ last' = [Call("add", 0, description, due_date, priority, FALSE, <<task>>, 1)
                        EXCEPT !.io = io]
    /\ UNCHANGED phase
    /\ UNCHANGED aux

\* TaskManager.add_task when save_tasks raises: lines 121-123 have run.
add_task_save_fails(description, due_date, priority, io) ==
    /\ phase = "run"
    /\ Len(assigned) < MaxAdds
    /\ LET pr == IF priority.isPriority THEN priority.prio ELSE from_str(priority.str)
           task == Task(next_id, description, due_date, FALSE, pr)
       IN /\ tasks' = Append(tasks, task)
          /\ oids' = Append(oids, next_oid)
          /\ next_oid' = next_oid + 1
          /\ next_id' = next_id + 1
          /\ file' = FailedSave(file, io)
          /\ held' = held \cup {task.id}
          /\ assigned' = Append(assigned, task.id)
          /\ last' = Raises(Call("add", 0, description, due_date, priority,
                                 FALSE, NoTask, 1), io)
    /\ UNCHANGED phase
    /\ UNCHANGED aux

\* Mutant: the completion is undone when save_tasks raises.
mark_task_completed_save_fails_rollback(task_id, io) ==
    /\ phase = "run"
    /\ get_task_by_id(tasks, task_id) # 0
    /\ file' = FailedSave(file, io)
    /\ last' = Raises(Call("mark", task_id, <<>>, None, NoArg, FALSE, NoTask, 1), io)
    /\ UNCHANGED <<phase, tasks, next_id, oids, next_oid, held, assigned>>
    /\ UNCHANGED aux

\* TaskManager.mark_task_completed when save_tasks raises: line 139 has run.
mark_task_completed_save_fails(task_id, io) ==
    /\ phase = "run"
    /\ LET k == get_task_by_id(tasks, task_id) IN
       /\ k # 0
       /\ tasks' = [tasks EXCEPT ![k] = mark_completed(tasks[k])]
       /\ file' = FailedSave(file, io)
       /\ last' = Raises(Call("mark", task_id, <<>>, None, NoArg, FALSE, NoTask, 1), io)
    /\ UNCHANGED <<phase, next_id, oids, next_oid, held, assigned>>
    /\ UNCHANGED aux

\* TaskManager.remove_task when save_tasks raises: line 145 has run.
remove_task_save_fails(task_id, io) ==
    /\ phase = "run"
    /\ LET before == Len(tasks)
           kept == Kept(tasks, task_id)
       IN /\ Len(kept) # before
          /\ tasks' = [j \in 1..Len(kept) |-> tasks[kept[j]]]
          /\ oids' = [j \in 1..Len(kept) |-> oids[kept[j]]]
          /\ file' = FailedSave(file, io)
          /\ last' = Raises(Call("remove", task_id, <<>>, None, NoArg, FALSE, NoTask, 1), io)
    /\ UNCHANGED <<phase, next_id, next_oid, held, assigned>>
    /\ UNCHANGED aux

\* The ids a caller passes: every id of the session, and one never used.
IdArgs == held \cup {next_id}

Next ==
    \/ TaskManager__init__
    \/ \E a \in AddArgs : add_task(a[1], a[2], a[3])
    \/ \E i \in IdArgs : mark_task_completed(i)
    \/ \E i \in IdArgs : remove_task(i)

Spec == Init /\ [][Next]_vars

NextLoad ==
    \/ TaskManager__init__
    \/ \E i \in IdArgs : mark_task_completed(i)
    \/ \E i \in IdArgs : remove_task(i)

SpecLoad == InitLoad /\ [][NextLoad]_vars

\* Sessions on a fresh file whose add_task calls differ in the priority
\* argument only: every spelling below, absent, and the three typed values.
UpperChar(c) ==
    IF \E k \in 1..26 : LowerCase[k] = c
    THEN UpperCase[CHOOSE k \in 1..26 : LowerCase[k] = c]
    ELSE c

Upper(s) == [k \in 1..Len(s) |-> UpperChar(s[k])]

\* A word as typed: lower case, upper case, upper case inside whitespace.
Spellings(w) == {w, Upper(w), <<" ">> \o Upper(w) \o <<"\t">>}

LowWords == {<<"l">>, <<"l", "o", "w">>}
MediumWords == {<<"m">>, <<"m", "e", "d">>, <<"m", "e", "d", "i", "u", "m">>}
HighWords == {<<"h">>, <<"h", "i">>, <<"h", "i", "g", "h">>}
OtherWords == {<<>>, <<"l", "o">>, <<"b", "o", "g", "u", "s">>}

PriorityInputs ==
    {PriorityArg(q) : q \in Priority} \cup {StrArg(None)}
    \cup {StrArg(Some(v)) :
            v \in UNION {Spellings(w) :
                           w \in LowWords \cup MediumWords \cup HighWords \cup OtherWords}}

InitPriority ==
    /\ phase = "new"
    /\ file = MissingFile
    /\ tasks = <<>>
    /\ next_id = 0
    /\ oids = <<>>
    /\ next_oid = 1
    /\ held = {}
    /\ assigned = <<>>
    /\ last = Call("none", 0, <<>>, None, NoArg, FALSE, NoTask, 0)
    /\ AuxInit

NextPriority ==
    \/ TaskManager__init__
    \/ \E q \in PriorityInputs : add_task(<<"a">>, None, q)

SpecPriority == InitPriority /\ [][NextPriority]_vars

\* Sessions with a reading caller: the registry operations, list_tasks and
\* get_task_by_id, and the caller's changes to the list it was given.
ReadFiles == {MissingFile, SavedFile, DuplicateIdFile}

InitRead ==
    /\ phase = "new"
    /\ file \in ReadFiles
    /\ tasks = <<>>
    /\ next_id = 0
    /\ oids = <<>>
    /\ next_oid = 1
    /\ held = {}
    /\ assigned = <<>>
    /\ last = Call("none", 0, <<>>, None, NoArg, FALSE, NoTask, 0)
    /\ AuxInit

NextRead ==
    \/ TaskManager__init__
    \/ add_task(<<"a">>, None, StrArg(None))
    \/ \E i \in IdArgs : mark_task_completed(i)
    \/ \E i \in IdArgs : remove_task(i)
    \/ list_tasks
    \/ \E i \in IdArgs : get_task(i)
    \/ CallerAppends
    \/ CallerPops

SpecRead == InitRead /\ [][NextRead]_vars

\* Sessions on a storage that can fail: every call that reads or writes the
\* file either works or raises.
IOFiles == {MissingFile, SavedFile}
IOAddArgs == { <<<<"a", COMMA, "b">>, Some(<<"d">>), StrArg(Some(<<"H", "I">>))>> }

InitIO ==
    /\ phase = "new"
    /\ file \in IOFiles
    /\ tasks = <<>>
    /\ next_id = 0
    /\ oids = <<>>
    /\ next_oid = 1
    /\ held = {}
    /\ assigned = <<>>
    /\ last = Call("none", 0, <<>>, None, NoArg, FALSE, NoTask, 0)
    /\ AuxInit

NextIO ==
    \/ TaskManager__init__
    \/ TaskManager__init__load_fails
    \/ \E a \in IOAddArgs : add_task(a[1], a[2], a[3])
    \/ \E a \in IOAddArgs, io \in SaveFailures : add_task_save_fails(a[1], a[2], a[3], io)
    \/ \E i \in IdArgs : mark_task_completed(i)
    \/ \E i \in IdArgs, io \in SaveFailures : mark_task_completed_save_fails(i, io)
    \/ \E i \in IdArgs : remove_task(i)
    \/ \E i \in IdArgs, io \in SaveFailures : remove_task_save_fails(i, io)

SpecIO == InitIO /\ [][NextIO]_vars

\* ------------------------------------------------- concurrent callers
\* Two callers share one TaskManager.  Each statement of add_task,
\* remove_task and save_tasks is a step; "self.next_id += 1" is a read and a
\* store.  With useLock a caller takes the lock before an operation and
\* gives it back after the operation has returned.
Locked(c) == useLock => lock = c

lock_acquire(c) ==
    /\ useLock
    /\ lock = 0
    /\ thr[c].pc = "idle"
    /\ lock' = c
    /\ UNCHANGED <<session, snapshot, useLock, thr>>

lock_release(c) ==
    /\ useLock
    /\ lock = c
    /\ thr[c].pc = "idle"
    /\ lock' = 0
    /\ UNCHANGED <<session, snapshot, useLock, thr>>

\* add_task, lines 120-121: the Task is built with the next_id read now.
add_task_create(c, description, due_date, priority) ==
    /\ phase = "run"
    /\ thr[c].pc = "idle"
    /\ Locked(c)
    /\ Len(assigned) < MaxAdds
    /\ LET pr == IF priority.isPriority THEN priority.prio ELSE from_str(priority.str)
           task == Task(next_id, description, due_date, FALSE, pr)
       IN /\ thr' = [thr EXCEPT ![c] = [Idle EXCEPT !.pc = "add_append", !.op = "add",
                                                    !.task = <<task>>, !.oid = next_oid]]
          /\ held' = held \cup {task.id}
          /\ assigned' = Append(assigned, task.id)
    /\ next_oid' = next_oid + 1
    /\ UNCHANGED <<phase, file, tasks, next_id, oids, last, snapshot, useLock, lock>>

\* add_task, line 122: self.tasks.append(task)
add_task_append(c) ==
    /\ thr[c].pc = "add_append"
    /\ tasks' = Append(tasks, thr[c].task[1])
    /\ oids' = Append(oids, thr[c].oid)
    /\ thr' = [thr EXCEPT ![c].pc = "add_load_next_id"]
    /\ UNCHANGED <<phase, file, next_id, next_oid, held, assigned, last>>
    /\ UNCHANGED <<snapshot, useLock, lock>>

\* add_task, line 123, first half: self.next_id is read.
add_task_load_next_id(c) ==
    /\ thr[c].pc = "add_load_next_id"
    /\ thr' = [thr EXCEPT ![c].pc = "add_store_next_id", ![c].read = next_id]
    /\ UNCHANGED <<session, snapshot, useLock, lock>>

\* Mutant: the sum is computed and not stored.
add_task_store_next_id_dropped(c) ==
    /\ thr[c].pc = "add_store_next_id"
    /\ thr' = [thr EXCEPT ![c].pc = "save_open", ![c].read = 0]
    /\ UNCHANGED <<session, snapshot, useLock, lock>>

\* add_task, line 123, second half: the value read, plus 1, is stored.
add_task_store_next_id(c) ==
    /\ thr[c].pc = "add_store_next_id"
    /\ next_id' = thr[c].read + 1
    /\ thr' = [thr EXCEPT ![c].pc = "save_open", ![c].read = 0]
    /\ UNCHANGED <<phase, file, tasks, oids, next_oid, held, assigned, last>>
    /\ UNCHANGED <<snapshot, useLock, lock>>

\* remove_task, line 144: before = len(self.tasks)
remove_task_before(c, task_id) ==
    /\ phase = "run"
    /\ thr[c].pc = "idle"
    /\ Locked(c)
    /\ thr' = [thr EXCEPT ![c] = [Idle EXCEPT !.pc = "remove_filter", !.op = "remove",
                                                 !.task_id = task_id,
                                                 !.before = Len(tasks)]]
    /\ UNCHANGED <<session, snapshot, useLock, lock>>

\* remove_task, line 145, right-hand side: the comprehension builds a list.
remove_task_filter(c) ==
    /\ thr[c].pc = "remove_filter"
    /\ LET kept == Kept(tasks, thr[c].task_id)
       IN thr' = [thr EXCEPT ![c].pc = "remove_assign",
                             ![c].kept = [j \in 1..Len(kept) |-> tasks[kept[j]]],
                             ![c].koids = [j \in 1..Len(kept) |-> oids[kept[j]]]]
    /\ UNCHANGED <<session, snapshot, useLock, lock>>

\* remove_task, line 145, assignment: self.tasks names the new list; a
\* save_tasks that was given the old list keeps iterating the old list.
remove_task_assign(c) ==
    /\ thr[c].pc = "remove_assign"
    /\ tasks' = thr[c].kept
    /\ oids' = thr[c].koids
    /\ thr' = [d \in Callers |->
                 IF d = c
                 THEN [thr[c] EXCEPT !.pc = "remove_check", !.kept = <<>>, !.koids = <<>>]
                 ELSE IF thr[d].pc = "save_write" /\ thr[d].arg.attached
                      THEN [thr[d] EXCEPT !.arg = Detached(tasks)]
                      ELSE thr[d]]
    /\ UNCHANGED <<phase, file, next_id, next_oid, held, assigned, last>>
    /\ UNCHANGED <<snapshot, useLock, lock>>

\* remove_task, lines 146-148: not found, return False; else go on to save.
remove_task_check(c) ==
    /\ thr[c].pc = "remove_check"
    /\ thr' = [thr EXCEPT ![c] = IF Len(tasks) = thr[c].before
                                  THEN Idle
                                  ELSE [@ EXCEPT !.pc = "save_open"]]
    /\ UNCHANGED <<session, snapshot, useLock, lock>>

\* save_tasks(self.tasks), line 76: open("w") creates or truncates the file.
save_tasks_open(c) ==
    /\ thr[c].pc = "save_open"
    /\ file' = [exists |-> TRUE, content |-> <<>>]
    /\ thr' = [thr EXCEPT ![c].pc = "save_write", ![c].arg = Attached]
    /\ UNCHANGED <<phase, tasks, next_id, oids, next_oid, held, assigned, last>>
    /\ UNCHANGED <<snapshot, useLock, lock>>

\* save_tasks, lines 77-79: the lines of the list go to the file's buffer.
save_tasks_write(c) ==
    /\ thr[c].pc = "save_write"
    /\ LET ts == IF thr[c].arg.attached THEN tasks ELSE thr[c].arg.items
       IN thr' = [thr EXCEPT ![c].pc = "save_close", ![c].arg = Attached,
                             ![c].buffer = EncodeAll(ts)]
    /\ UNCHANGED <<session, snapshot, useLock, lock>>

\* save_tasks, end of the with block: the buffer is written at offset 0 of
\* the file as it is now, and the operation returns.
save_tasks_close(c) ==
    /\ thr[c].pc = "save_close"
    /\ LET buffer == thr[c].buffer
       IN file' = [exists |-> TRUE,
                   content |-> buffer \o SubSeq(file.content, Len(buffer) + 1,
                                                Len(file.content))]
    /\ thr' = [thr EXCEPT ![c] = Idle]
    /\ UNCHANGED <<phase, tasks, next_id, oids, next_oid, held, assigned, last>>
    /\ UNCHANGED <<snapshot, useLock, lock>>

ConcAddArgs == { <<<<"a">>, None, PriorityArg("LOW")>> }

InitConc ==
    /\ phase = "new"
    /\ file = MissingFile
    /\ tasks = <<>>
    /\ next_id = 0
    /\ oids = <<>>
    /\ next_oid = 1
    /\ held = {}
    /\ assigned = <<>>
    /\ last = Call("none", 0, <<>>, None, NoArg, FALSE, NoTask, 0)
    /\ snapshot = NoList
    /\ useLock \in BOOLEAN
    /\ lock = 0
    /\ thr = [c \in Callers |-> Idle]

NextConc ==
    \/ TaskManager__init__
    \/ \E c \in Callers : lock_acquire(c)
    \/ \E c \in Callers : lock_release(c)
    \/ \E c \in Callers, a \in ConcAddArgs : add_task_create(c, a[1], a[2], a[3])
    \/ \E c \in Callers : add_task_append(c)
    \/ \E c \in Callers : add_task_load_next_id(c)
    \/ \E c \in Callers : add_task_store_next_id(c)
    \/ \E c \in Callers, i \in held : remove_task_before(c, i)
    \/ \E c \in Callers : remove_task_filter(c)
    \/ \E c \in Callers : remove_task_assign(c)
    \/ \E c \in Callers : remove_task_check(c)
    \/ \E c \in Callers : save_tasks_open(c)
    \/ \E c \in Callers : save_tasks_write(c)
    \/ \E c \in Callers : save_tasks_close(c)

SpecConc == InitConc /\ [][NextConc]_vars

\* ================================================================ claims
Running == phase = "run"
Mutating == last.op \in {"add", "mark", "remove"}

\* The call that makes a step, read from the call record the step writes.
StepOf(op) == Running /\ last'.op = op
Present(task_id) == task_id \in Ids(tasks)

\* C1: after every add, markCompleted or remove call returns, loading the
\* backing file yields a list equal to the in-memory task list (length,
\* order and the five fields of every task).
C1_FileEqualsMemory ==
    (Running /\ Mutating) => load_tasks(file) = tasks

\* C2: in every reachable state of a session, no two tasks of the registry's
\* list have the same id.
C2_UniqueIds ==
    Running => \A i, j \in 1..Len(tasks) : tasks[i].id = tasks[j].id => i = j

\* C3: the ids assigned by successive add calls are strictly increasing, and
\* an id held by any task of the session (loaded or added, removed or not)
\* is never assigned by a later add.
C3_IdsIncreaseNeverReused ==
    [][StepOf("add") =>
         LET new == last'.retTask[1].id IN
         /\ new \notin held
         /\ \A k \in 1..Len(assigned) : assigned[k] < new
         /\ new \notin Ids(tasks)]_vars

C3_Witness ==
    /\ Running
    /\ last.op = "add"
    /\ Len(assigned) = 2
    /\ \E i \in held : i \notin Ids(tasks)

\* C4 as stated: next-id equals the maximum id among the tasks currently in
\* the registry plus 1, or 1 if the registry is empty.
C4_NextIdIsMaxCurrentPlus1 ==
    Running => next_id = MaxOr0(Ids(tasks)) + 1

\* C4 amended: next-id equals the maximum id among all tasks the session has
\* held (loaded or added, including tasks removed since) plus 1, or 1 if the
\* session has held none.
C4_NextIdIsMaxHeldPlus1 ==
    Running => next_id = MaxOr0(held) + 1

C4_Witness ==
    /\ Running
    /\ last.op = "remove"
    /\ last.retBool
    /\ tasks # <<>>
    /\ next_id > MaxOr0(Ids(tasks)) + 1

\* C5: markCompleted(id) and remove(id) with an id no task has return false,
\* trigger no save and leave the file, the task list (contents and order)
\* and next-id unchanged.
C5_AbsentIdIsNoOp ==
    [][((StepOf("mark") \/ StepOf("remove")) /\ ~Present(last'.task_id)) =>
         /\ last'.retBool = FALSE
         /\ last'.saves = 0
         /\ file' = file
         /\ tasks' = tasks
         /\ next_id' = next_id]_vars

C5_Witness ==
    /\ Running
    /\ last.op \in {"mark", "remove"}
    /\ ~last.retBool
    /\ last.task_id \notin Ids(tasks)
    /\ tasks # <<>>
    /\ load_tasks(file) # <<>>

\* C6: for any ordered set of tasks, save followed by load returns a list of
\* the same length and order in which every task equals the original in id,
\* description, due_date, completed and priority.
C6_SaveLoadRoundTrip ==
    \A n \in 0..Len(tasks) :
        LET ts == SubSeq(tasks, 1, n) IN load_tasks(save_tasks(ts)) = ts

\* C7: add appends exactly one new task at the end with id = next-id before
\* the call, completed = false and the given description and due_date,
\* increases next-id by 1, leaves the earlier tasks and their order
\* unchanged, triggers one save and returns the new task.
C7_AddAppends ==
    [][StepOf("add") =>
         /\ Len(tasks') = Len(tasks) + 1
         /\ \A k \in 1..Len(tasks) : tasks'[k] = tasks[k]
         /\ LET new == tasks'[Len(tasks')] IN
            /\ new.id = next_id
            /\ new.completed = FALSE
            /\ new.description = last'.description
            /\ new.due_date = last'.due_date
            /\ last'.retTask = <<new>>
         /\ next_id' = next_id + 1
         /\ last'.saves = 1
         /\ file' = save_tasks(tasks')]_vars

C7_Witness ==
    /\ Running
    /\ last.op = "add"
    /\ Len(tasks) >= 2
    /\ last.description = <<"a", COMMA, "b">>
    /\ last.retTask = <<tasks[Len(tasks)]>>

\* C8: remove(id) with an id present returns true, triggers a save and
\* leaves the previous list with that one task taken out: the length drops
\* by exactly one, the other tasks keep their values and relative order,
\* and next-id is unchanged.
C8_RemoveTakesOneOut ==
    [][(StepOf("remove") /\ Present(last'.task_id)) =>
         /\ last'.retBool = TRUE
         /\ last'.saves = 1
         /\ Len(tasks') = Len(tasks) - 1
         /\ \E k \in 1..Len(tasks) :
               /\ tasks[k].id = last'.task_id
               /\ \A j \in 1..Len(tasks') :
                     tasks'[j] = IF j < k THEN tasks[j] ELSE tasks[j + 1]
         /\ next_id' = next_id]_vars

\* C9: markCompleted(id) with an id present returns true, sets completed on
\* the (first) task with that id, triggers a save and changes nothing else:
\* the other fields of that task, every other task, the order and next-id.
C9_MarkSetsOnlyCompleted ==
    [][(StepOf("mark") /\ Present(last'.task_id)) =>
         /\ last'.retBool = TRUE
         /\ last'.saves = 1
         /\ file' = save_tasks(tasks')
         /\ Len(tasks') = Len(tasks)
         /\ \A k \in 1..Len(tasks) :
               LET first == /\ tasks[k].id = last'.task_id
                            /\ \A j \in 1..(k - 1) : tasks[j].id # last'.task_id
               IN /\ tasks'[k].id = tasks[k].id
                  /\ tasks'[k].description = tasks[k].description
                  /\ tasks'[k].due_date = tasks[k].due_date
                  /\ tasks'[k].priority = tasks[k].priority
                  /\ tasks'[k].completed = (first \/ tasks[k].completed)
         /\ oids' = oids
         /\ next_id' = next_id]_vars

C9_Witness ==
    /\ Running
    /\ last.op = "mark"
    /\ last.retBool
    /\ \E i, j \in 1..Len(tasks) :
          /\ i < j
          /\ tasks[i].id = last.task_id
          /\ tasks[j].id = last.task_id
          /\ tasks[i].completed
          /\ ~tasks[j].completed

\* C10: once a task in the registry has completed = true, it has it in every
\* later state in which it is still in the registry.
C10_CompletedIsOneWay ==
    [][Running =>
         \A i \in 1..Len(tasks), j \in 1..Len(tasks') :
            (oids[i] = oids'[j] /\ tasks[i].completed) => tasks'[j].completed]_vars

C10_Witness ==
    /\ Running
    /\ last.op \in {"add", "remove"}
    /\ Len(assigned) = 2
    /\ \E k \in 1..Len(tasks) : tasks[k].completed /\ tasks[k].id = assigned[1]

\* C11: initialize sets the task list to the loaded tasks and next-id to the
\* maximum loaded id plus 1 whatever the order of the ids in the file (stored
\* ids 3, 7, 2 give 8); a missing file gives an empty list and next-id 1
\* without an error.
C11_InitializeLoads ==
    (Running /\ last.op = "init") =>
        /\ ~last.raised
        /\ tasks = load_tasks(file)
        /\ \A k \in 1..Len(tasks) : tasks[k].id < next_id
        /\ IF tasks = <<>> THEN next_id = 1
           ELSE \E k \in 1..Len(tasks) : tasks[k].id = next_id - 1
        /\ ~file.exists => (tasks = <<>> /\ next_id = 1)
        /\ file = UnorderedIdsFile =>
              (<<tasks[1].id, tasks[2].id, tasks[3].id>> = <<3, 7, 2>> /\ next_id = 8)

C11_Witness ==
    /\ Running
    /\ last.op = "init"
    /\ Len(tasks) = 3
    /\ Ids(tasks) = {3, 7, 2}
    /\ next_id = 8

\* A line load_tasks can use: four or five comma-separated fields, the first
\* of which int() accepts.
UsableLine(line) ==
    LET parts == Split(RStripNL(line), COMMA)
    IN Len(parts) \in {4, 5} /\ ParseInt(parts[1]).ok

\* C12: load never fails on a malformed record: a line that does not split
\* into 4 or 5 fields, or whose first field is no integer, is skipped, and
\* every other line of the file is loaded, in file order.
C12_MalformedLinesSkipped ==
    file.exists =>
        LET usable == SelectSeq(FileLines(file.content), UsableLine)
            loaded == load_tasks(file)
        IN /\ Len(loaded) = Len(usable)
           /\ \A k \in 1..Len(usable) :
                 LET parts == Split(RStripNL(usable[k]), COMMA)
                 IN /\ loaded[k].id = ParseInt(parts[1]).val
                    /\ <<loaded[k]>> = DecodeLine(usable[k])
           /\ (Running /\ last.op = "init") => tasks = loaded

C12_Witness ==
    /\ Running
    /\ last.op = "init"
    /\ Len(FileLines(file.content)) = 2
    /\ ~UsableLine(FileLines(file.content)[1])
    /\ UsableLine(FileLines(file.content)[2])
    /\ Len(tasks) = 1
    /\ tasks[1].id = 2

\* C13: every task in the registry has a positive id in every reachable
\* state, and every id assigned by add is positive.
C13_PositiveIds ==
    Running =>
        /\ \A k \in 1..Len(tasks) : tasks[k].id > 0
        /\ \A k \in 1..Len(assigned) : assigned[k] > 0

\* The priority the mapping of the specification gives an argument of add.
MappedPriority(arg) ==
    IF arg.isPriority THEN arg.prio
    ELSE IF arg.str = None THEN "MEDIUM"
    ELSE IF arg.str[1] \in UNION {Spellings(w) : w \in LowWords} THEN "LOW"
    ELSE IF arg.str[1] \in UNION {Spellings(w) : w \in HighWords} THEN "HIGH"
    ELSE "MEDIUM"

\* C14: the lenient priority mapping is total: after trimming and lower-
\* casing, l/low give low, m/med/medium give medium, h/hi/high give high and
\* anything else or absent gives medium; add with "HI" stores high, with
\* "bogus" medium, and a typed Priority is stored unchanged.
C14_LenientPriority ==
    (Running /\ last.op = "add") =>
        LET stored == tasks[Len(tasks)].priority IN
        /\ stored \in Priority
        /\ stored = MappedPriority(last.priority)
        /\ last.priority = StrArg(Some(<<"H", "I">>)) => stored = "HIGH"
        /\ last.priority = StrArg(Some(<<"b", "o", "g", "u", "s">>)) => stored = "MEDIUM"
        /\ last.priority.isPriority => stored = last.priority.prio
        /\ \A k \in 1..Len(tasks) : tasks[k].priority \in Priority

C14_Witness ==
    /\ Running
    /\ last.op = "add"
    /\ last.priority = StrArg(Some(<<" ", "H", "I", "\t">>))
    /\ Len(tasks) = 2
    /\ tasks[1].priority = "LOW"
    /\ tasks[2].priority = "HIGH"

\* A step of the caller on the list it was given.
CallerStep == StepOf("caller-append") \/ StepOf("caller-pop")

\* C15: list() and getById(id) trigger no save and leave the task list,
\* next-id and the file unchanged; list() returns all tasks in insertion
\* order as a copy, so that adding or removing elements of the returned list
\* does not change the registry's list; getById returns the first task in
\* list order with that id, or nothing if there is none.
C15_ReadsChangeNothing ==
    [][/\ (StepOf("list") \/ StepOf("get")) =>
            /\ last'.saves = 0
            /\ tasks' = tasks /\ oids' = oids /\ next_id' = next_id /\ file' = file
       /\ StepOf("list") =>
            /\ snapshot'.items = oids
            /\ \A i, j \in 1..Len(oids) : i < j => oids[i] < oids[j]
       /\ StepOf("get") =>
            IF Present(last'.task_id)
            THEN \E k \in 1..Len(tasks) :
                    /\ last'.retTask = <<tasks[k]>>
                    /\ tasks[k].id = last'.task_id
                    /\ \A j \in 1..(k - 1) : tasks[j].id # last'.task_id
            ELSE last'.retTask = NoTask
       /\ CallerStep =>
            /\ tasks' = tasks /\ oids' = oids /\ next_id' = next_id /\ file' = file
      ]_vars

C15_Witness ==
    /\ Running
    /\ last.op = "caller-pop"
    /\ Len(tasks) >= 2
    /\ Len(snapshot.items) = Len(oids) - 1
    /\ \A k \in 1..Len(snapshot.items) : snapshot.items[k] = oids[k]

\* C17: in every reachable state of a session next-id is strictly greater
\* than the id of every task in the registry, and next-id never decreases
\* across add, markCompleted and remove.
C17_NextIdAboveAllIds ==
    /\ [](Running => \A k \in 1..Len(tasks) : tasks[k].id < next_id)
    /\ [][Running => next_id' >= next_id]_vars

C17_Witness ==
    /\ Running
    /\ last.op = "remove"
    /\ last.retBool
    /\ Len(assigned) = 2
    /\ tasks # <<>>
    /\ next_id > MaxOr0(Ids(tasks)) + 2

\* A step in which the storage failed, and one in which add, markCompleted
\* or remove met that failure in its save.
StorageFails == last'.io # "ok" /\ last' # last
SaveFails(op) == last'.op = op /\ last'.io \in SaveFailures /\ last' # last

\* C16: a failure to read or write the file reaches the caller as an error,
\* never retried or swallowed: a load failure makes initialize fail, a save
\* failure inside add, markCompleted or remove makes that call fail instead
\* of returning its normal result.
C16_StorageErrorsPropagate ==
    [][StorageFails =>
         /\ last'.raised
         /\ last'.retBool = FALSE
         /\ last'.retTask = NoTask
         /\ last'.saves <= 1
         /\ last'.op = "init" => (last'.io = "read" /\ phase' = "new" /\ tasks' = <<>>)
         /\ last'.op \in {"add", "mark", "remove"} => last'.saves = 1
         /\ last'.op \in {"init", "add", "mark", "remove"}]_vars

C16_Witness ==
    /\ Running
    /\ last.op = "add"
    /\ last.io = "write"
    /\ last.raised
    /\ last.retTask = NoTask
    /\ Len(tasks) = 2

\* C18 as stated: when save fails inside add, markCompleted or remove, the
\* mutation has been applied in memory and the in-memory list differs from
\* the persisted file.
C18_FailedSaveLeavesFileBehind ==
    [][(SaveFails("add") \/ SaveFails("mark") \/ SaveFails("remove")) =>
         load_tasks(file') # tasks']_vars

\* C18 amended: when save fails inside add, markCompleted or remove, the
\* in-memory mutation has been applied and is not rolled back, so the
\* in-memory list differs from the file whenever file and list agreed before
\* the call, the call changed the list and the list is not empty afterwards;
\* every later successful save writes the whole in-memory list.
C18_FailedSaveKeepsMutation ==
    [][/\ SaveFails("add") =>
            /\ Len(tasks') = Len(tasks) + 1
            /\ \A k \in 1..Len(tasks) : tasks'[k] = tasks[k]
            /\ tasks'[Len(tasks')].id = next_id
            /\ tasks'[Len(tasks')].description = last'.description
            /\ next_id' = next_id + 1
       /\ SaveFails("mark") =>
            /\ Present(last'.task_id)
            /\ Len(tasks') = Len(tasks)
            /\ \A k \in 1..Len(tasks) :
                  LET first == /\ tasks[k].id = last'.task_id
                               /\ \A j \in 1..(k - 1) : tasks[j].id # last'.task_id
                  IN tasks'[k] = [tasks[k] EXCEPT !.completed = first \/ @]
       /\ SaveFails("remove") =>
            /\ Present(last'.task_id)
            /\ last'.task_id \notin Ids(tasks')
            /\ Len(tasks') < Len(tasks)
       /\ (SaveFails("add") \/ SaveFails("mark") \/ SaveFails("remove")) =>
            ((tasks' # tasks /\ tasks' # <<>> /\ load_tasks(file) = tasks)
               => load_tasks(file') # tasks')
       /\ (Running /\ last'.saves = 1 /\ ~last'.raised /\ last' # last) =>
            file' = save_tasks(tasks')
      ]_vars

C18_Witness ==
    /\ Running
    /\ last.op = "mark"
    /\ last.io = "open"
    /\ last.raised
    /\ Len(assigned) = 1
    /\ Len(tasks) = 1
    /\ tasks[1].id = assigned[1]
    /\ tasks[1].completed
    /\ load_tasks(file) # tasks

\* ------------------------------------------------------------------ C19
NoSharedId ==
    \A i, j \in 1..Len(tasks) : i # j => tasks[i].id # tasks[j].id
AllReturned == \A c \in Callers : thr[c].pc = "idle"
FileConsistent == file = save_tasks(tasks) \/ (~file.exists /\ tasks = <<>>)

\* C19: when every read-modify-write-save sequence of two concurrent
\* callers runs under one mutual-exclusion lock, no state is reachable in
\* which two tasks share an id or, both operations having returned, the
\* persisted file is not what the in-memory list saves as; without the
\* lock such a state is reachable (C19_Witness).
C19_LockExcludesRaces ==
    useLock => /\ NoSharedId
               /\ AllReturned => FileConsistent

\* Without the lock: two add_task calls read the same next_id, so that two
\* tasks shared an id, and after every operation has returned the file is
\* not what the in-memory list saves as.
C19_Witness ==
    /\ ~useLock
    /\ Running
    /\ AllReturned
    /\ \E i, j \in 1..Len(assigned) : i # j /\ assigned[i] = assigned[j]
    /\ ~FileConsistent

====
